---- MODULE Spec2Model ----
(***************************************************************************)
(* A model of marker_to_slides_converter.py: the flattening of a Marker    *)
(* block tree into elements (extract_elements_from_marker) and the greedy  *)
(* packing of the elements into slides (assemble_slides).                  *)
(*                                                                         *)
(* Representation of Python values:                                        *)
(*   None            the string Null                                       *)
(*   a text (str)    the sequence of its words; "" is <<>>; a line break   *)
(*                   inside a text is the token NL                         *)
(*   HTML markup     a sequence of tokens: tags (members of Tags),         *)
(*                   whitespace (WS) and words; absent markup is <<>>      *)
(*   a JSON value that is no object   the record NotADict                  *)
(*   a dict of images  a function from block ids to payloads; an absent    *)
(*                   or empty mapping is the empty function <<>>           *)
(*   uuid.uuid4()    a fresh number (the count of elements made so far)    *)
(***************************************************************************)
EXTENDS Integers, Sequences, FiniteSets, TLC

VARIABLES
    pc,                           \* where the run is: main, marker, load, extract, assemble, loop, returned, exited
    env,                          \* what the run finds: arguments, files, the outcome of Marker
    marker_data_from_json,        \* the value json.load gives for the Marker JSON
    total_pdf_pages,              \* total_pdf_pages_calculated
    printed,                      \* the documents printed on stdout
    messages,                     \* the messages printed, oldest first
    exit_status,                  \* the status the interpreter exits with
    marker_data,                  \* the list of page objects given to extract_elements_from_marker
    page_num_idx,                 \* position in the page list (1-based here, 0-based in the code)
    i,                            \* position in temp_blocks_on_page (1-based here)
    all_elements,                 \* the elements extracted so far
    origin,                       \* history: for each extracted element, <<page position, block position>> of its block
    processed_list_group_ids,
    processed_parent_group_ids,
    input,                        \* history: the argument of assemble_slides as it was at the call
    elements,                     \* the caller's element dicts (processed_elements holds the same dicts)
    idx,                          \* position of the loop over processed_elements (1-based here)
    current_slide_elements,
    current_slide_text_count,
    current_slide_image_count,
    current_slide_source_pages,
    slide_counter,
    slides_data

extractVars == <<marker_data, page_num_idx, i, all_elements, origin,
                 processed_list_group_ids, processed_parent_group_ids>>
packVars == <<input, elements, idx, current_slide_elements, current_slide_text_count,
              current_slide_image_count, current_slide_source_pages, slide_counter,
              slides_data>>
mainVars == <<env, marker_data_from_json, total_pdf_pages, printed, messages, exit_status>>
vars == <<pc, mainVars, extractVars, packVars>>

Null == "null"
NL == "\n"
WS == " "

\* ------------------------------------------------------------ configuration

IGNORED_BLOCK_TYPES ==
    {"PageFooter", "PageHeader", "Footnote", "Form", "Handwriting", "TableOfContents"}

VISUAL_IMAGE_BLOCK_TYPES == {"Figure", "Picture", "FigureGroup", "PictureGroup"}

MAX_TEXT_ELEMENTS_PER_SLIDE == 3

MAX_IMAGES_PER_SLIDE == 2

MAX_TEXT_WITH_IMAGES == 1

\* ------------------------------------------------------------ texts

Tags == {"<p>", "</p>", "<h1>", "</h1>", "<br>", "<li>", "</li>"}

\* bool(s) of a Python string or None (an id, an image payload)
Truthy(s) == s # Null /\ s # ""

\* get_clean_text: the text nodes of the markup, each stripped, the empty ones
\* dropped, joined by single spaces; a <br> becomes a text node "\n", which
\* strip=True empties and drops like whitespace between tags.
get_clean_text(html_content) ==
    IF html_content = <<>>
    THEN <<>>
    ELSE SelectSeq(html_content, LAMBDA t : t \notin Tags /\ t # WS /\ t # NL)

\* str.lower() on the words the model uses
LowerWord(w) ==
    CASE w \in {"Figure", "FIGURE", "figure"} -> "figure"
      [] w \in {"Picture", "picture"} -> "picture"
      [] w \in {"FigureGroup", "figuregroup"} -> "figuregroup"
      [] w \in {"PictureGroup", "picturegroup"} -> "picturegroup"
      [] w \in {"Table", "table"} -> "table"
      [] w \in {"TableGroup", "tablegroup"} -> "tablegroup"
      [] w \in {"Code", "code"} -> "code"
      [] w \in {"Equation", "equation"} -> "equation"
      [] OTHER -> w

\* text.lower() == name, for a one-word name already in lower case
LowerEquals(text, name) == Len(text) = 1 /\ LowerWord(text[1]) = name

\* marker_block_type.lower().replace("group", "")
LowerNoGroup(block_type) ==
    CASE LowerWord(block_type) = "tablegroup" -> "table"
      [] LowerWord(block_type) = "figuregroup" -> "figure"
      [] LowerWord(block_type) = "picturegroup" -> "picture"
      [] OTHER -> LowerWord(block_type)

\* sep.join(texts) for a list of texts
RECURSIVE JoinWith(_, _)
JoinWith(sep, texts) ==
    IF texts = <<>> THEN <<>>
    ELSE IF Len(texts) = 1 THEN texts[1]
    ELSE texts[1] \o <<sep>> \o JoinWith(sep, Tail(texts))

\* filter(None, texts)
FilterNone(texts) == SelectSeq(texts, LAMBDA t : t # <<>>)

\* ------------------------------------------------------------ classification

\* get_block_semantic_type: the SectionHeader branch is a bare `pass`, so the
\* function falls through to the final `return None` for a SectionHeader.
get_block_semantic_type(marker_block) ==
    LET block_type == marker_block.block_type IN
    CASE block_type = "SectionHeader" -> Null
      [] block_type \in {"Text", "TextInlineMath"} -> "paragraph"
      [] block_type \in VISUAL_IMAGE_BLOCK_TYPES -> "image"
      [] block_type = "ListGroup" -> "list"
      [] block_type = "ListItem" -> "list_item_internal"
      [] block_type \in {"Table", "TableGroup"} -> "table"
      [] block_type = "Code" -> "code"
      [] block_type = "Equation" -> "equation"
      [] block_type = "Caption" -> "paragraph"
      [] OTHER -> Null

\* ------------------------------------------------------------ blocks

\* A block of the Marker tree (a dict). section_hierarchy is the set of its
\* level keys, {} when the block has none.
Blk(block_type, id, html, images, children, section_hierarchy) ==
    [block_type |-> block_type, id |-> id, html |-> html, images |-> images,
     children |-> children, section_hierarchy |-> section_hierarchy]

NotADict == Blk("<scalar>", Null, <<>>, <<>>, <<>>, {})

\* isinstance(x, dict)
IsDict(x) == x.block_type # "<scalar>"

\* The position of the last child of one of the block types, 0 when there is
\* none: the loop over a group's children keeps the last match.
LastIndex(children, block_types) ==
    LET hits == {k \in 1..Len(children) :
                    IsDict(children[k]) /\ children[k].block_type \in block_types} IN
    IF hits = {} THEN 0 ELSE CHOOSE k \in hits : \A m \in hits : m <= k

\* block.get("images") and isinstance(block["images"], dict) and key in block["images"]
HasImage(block, key) == key \in DOMAIN block.images

\* ------------------------------------------------------------ content resolution

\* The outcome of one pass of the while loop over a page-level block:
\*   emit      whether an element is appended
\*   type, content, image   the element's fields
\*   lists, groups          the two processed-id sets afterwards
Outcome(emit, type, content, image, lists, groups) ==
    [emit |-> emit, type |-> type, content |-> content, image |-> image,
     lists |-> lists, groups |-> groups]

\* A variant of Emitted that appends whatever has a kind
Emitted_NoContentCheck(type, content, image, lists, groups) ==
    Outcome(type # Null, type, content, image, lists, groups)

\* "Add element if it has content or image data"
Emitted(type, content, image, lists, groups) ==
    Outcome((content # <<>> \/ Truthy(image)) /\ type # Null,
            type, content, image, lists, groups)

\* A variant of ResolveGroup that keeps the kind image when the Figure child has no payload
ResolveGroup_NoRetract(child_block, lists, groups) ==
    LET block_id == child_block.id
        marker_block_type == child_block.block_type
        kids == child_block.children
        fi == LastIndex(kids, {"Figure", "Picture"})
        ci == LastIndex(kids, {"Caption"})
    IN
    IF fi = 0
    THEN Emitted("image", <<>>, Null, lists, groups)
    ELSE
        LET figure_child == kids[fi]
            fig_id == figure_child.id
            image_data_b64 == IF HasImage(figure_child, fig_id)
                              THEN figure_child.images[fig_id] ELSE Null
            html_content == get_clean_text(child_block.html)
            content == IF ci # 0 THEN get_clean_text(kids[ci].html)
                       ELSE IF ~LowerEquals(html_content, LowerWord(marker_block_type))
                            THEN html_content ELSE <<>>
        IN
        Emitted("image", content, image_data_b64, lists,
                IF Truthy(image_data_b64) /\ Truthy(block_id)
                THEN groups \cup {block_id} ELSE groups)

\* A variant of ResolveGroup that looks the payload up in the mapping of the group
ResolveGroup_GroupMapping(child_block, lists, groups) ==
    LET block_id == child_block.id
        marker_block_type == child_block.block_type
        kids == child_block.children
        fi == LastIndex(kids, {"Figure", "Picture"})
        ci == LastIndex(kids, {"Caption"})
    IN
    IF fi = 0
    THEN Emitted("image", <<>>, Null, lists, groups)
    ELSE
        LET figure_child == kids[fi]
            fig_id == figure_child.id
            image_data_b64 == IF HasImage(child_block, fig_id)
                              THEN child_block.images[fig_id] ELSE Null
            html_content == get_clean_text(child_block.html)
            content == IF ci # 0 THEN get_clean_text(kids[ci].html)
                       ELSE IF ~LowerEquals(html_content, LowerWord(marker_block_type))
                            THEN html_content ELSE <<>>
        IN
        IF Truthy(image_data_b64)
        THEN Emitted("image", content, image_data_b64, lists,
                     IF Truthy(block_id) THEN groups \cup {block_id} ELSE groups)
        ELSE Emitted(Null, content, image_data_b64, lists, groups)

\* FigureGroup / PictureGroup
ResolveGroup(child_block, lists, groups) ==
    LET block_id == child_block.id
        marker_block_type == child_block.block_type
        kids == child_block.children
        fi == LastIndex(kids, {"Figure", "Picture"})
        ci == LastIndex(kids, {"Caption"})
    IN
    IF fi = 0
    THEN Emitted("image", <<>>, Null, lists, groups)
    ELSE
        LET figure_child == kids[fi]
            fig_id == figure_child.id
            image_data_b64 == IF HasImage(figure_child, fig_id)
                              THEN figure_child.images[fig_id] ELSE Null
            html_content == get_clean_text(child_block.html)
            content == IF ci # 0 THEN get_clean_text(kids[ci].html)
                       ELSE IF ~LowerEquals(html_content, LowerWord(marker_block_type))
                            THEN html_content ELSE <<>>
        IN
        IF Truthy(image_data_b64)
        THEN Emitted("image", content, image_data_b64, lists,
                     IF Truthy(block_id) THEN groups \cup {block_id} ELSE groups)
        ELSE Emitted(Null, content, image_data_b64, lists, groups)

\* a direct Figure / Picture
ResolveFigure(child_block, lists, groups) ==
    LET block_id == child_block.id
        marker_block_type == child_block.block_type
        html_content == get_clean_text(child_block.html)
    IN
    IF HasImage(child_block, block_id)
    THEN Emitted("image",
                 IF ~LowerEquals(html_content, LowerWord(marker_block_type))
                 THEN html_content ELSE <<>>,
                 child_block.images[block_id], lists, groups)
    ELSE Emitted(Null, <<>>, Null, lists, groups)

\* A variant of ResolveStructural that takes the payload the block has under its id
ResolveStructural_OwnImage(child_block, slide_element_type, lists, groups) ==
    LET own == get_clean_text(child_block.html)
        content == IF LowerEquals(own, LowerNoGroup(child_block.block_type))
                   THEN <<>> ELSE own
        dicts == SelectSeq(child_block.children, IsDict)
        child_texts == [k \in 1..Len(dicts) |-> get_clean_text(dicts[k].html)]
    IN
    Emitted(slide_element_type,
            IF content = <<>> /\ child_block.children # <<>>
            THEN JoinWith(NL, FilterNone(child_texts)) ELSE content,
            IF HasImage(child_block, child_block.id)
            THEN child_block.images[child_block.id] ELSE Null,
            lists, groups)

\* Table, TableGroup, Code, Equation
ResolveStructural(child_block, slide_element_type, lists, groups) ==
    LET own == get_clean_text(child_block.html)
        content == IF LowerEquals(own, LowerNoGroup(child_block.block_type))
                   THEN <<>> ELSE own
        dicts == SelectSeq(child_block.children, IsDict)
        child_texts == [k \in 1..Len(dicts) |-> get_clean_text(dicts[k].html)]
    IN
    Emitted(slide_element_type,
            IF content = <<>> /\ child_block.children # <<>>
            THEN JoinWith(NL, FilterNone(child_texts)) ELSE content,
            Null, lists, groups)

\* A variant of ResolveList that does not record the id of the list
ResolveList_NoMark(child_block, lists, groups) ==
    LET items == SelectSeq(child_block.children,
                           LAMBDA c : IsDict(c) /\ c.block_type = "ListItem")
        list_items_text == [k \in 1..Len(items) |-> <<"-">> \o get_clean_text(items[k].html)]
    IN
    Emitted("list", JoinWith(NL, list_items_text), Null, lists, groups)

\* ListGroup that was not processed before
ResolveList(child_block, lists, groups) ==
    LET block_id == child_block.id
        items == SelectSeq(child_block.children,
                           LAMBDA c : IsDict(c) /\ c.block_type = "ListItem")
        list_items_text == [k \in 1..Len(items) |-> <<"-">> \o get_clean_text(items[k].html)]
    IN
    Emitted("list", JoinWith(NL, list_items_text), Null,
            IF Truthy(block_id) THEN lists \cup {block_id} ELSE lists, groups)

\* A variant of ResolveBlock that takes a list_item_internal block as text
ResolveBlock_ListItemAsText(child_block, lists, groups) ==
    LET block_id == child_block.id
        marker_block_type == child_block.block_type
        slide_element_type == get_block_semantic_type(child_block)
        Skip == Outcome(FALSE, Null, <<>>, Null, lists, groups)
    IN
    IF marker_block_type \in IGNORED_BLOCK_TYPES \/ block_id \in groups
    THEN Skip
    ELSE CASE slide_element_type = "image" ->
                 IF marker_block_type \in {"FigureGroup", "PictureGroup"}
                 THEN ResolveGroup(child_block, lists, groups)
                 ELSE ResolveFigure(child_block, lists, groups)
           [] slide_element_type \in {"table", "code", "equation"} ->
                 ResolveStructural(child_block, slide_element_type, lists, groups)
           [] slide_element_type = "list" ->
                 IF block_id \in lists THEN Skip
                 ELSE ResolveList(child_block, lists, groups)
           [] slide_element_type \in {"paragraph", "heading", "list_item_internal"} ->
                 Emitted(slide_element_type, get_clean_text(child_block.html), Null,
                         lists, groups)
           [] OTHER -> Skip

\* One pass of `while i < len(temp_blocks_on_page)` for child_block.
ResolveBlock(child_block, lists, groups) ==
    LET block_id == child_block.id
        marker_block_type == child_block.block_type
        slide_element_type == get_block_semantic_type(child_block)
        Skip == Outcome(FALSE, Null, <<>>, Null, lists, groups)
    IN
    IF marker_block_type \in IGNORED_BLOCK_TYPES \/ block_id \in groups
    THEN Skip
    ELSE CASE slide_element_type = "image" ->
                 IF marker_block_type \in {"FigureGroup", "PictureGroup"}
                 THEN ResolveGroup(child_block, lists, groups)
                 ELSE ResolveFigure(child_block, lists, groups)
           [] slide_element_type \in {"table", "code", "equation"} ->
                 ResolveStructural(child_block, slide_element_type, lists, groups)
           [] slide_element_type = "list" ->
                 IF block_id \in lists THEN Skip
                 ELSE ResolveList(child_block, lists, groups)
           [] slide_element_type \in {"paragraph", "heading"} ->
                 Emitted(slide_element_type, get_clean_text(child_block.html), Null,
                         lists, groups)
           [] OTHER -> Skip
\* ------------------------------------------------------------ pages

\* A Page block; its id is kept as the list of its '/'-separated parts
\* (page_id_str.split('/')), <<>> when the page has no id.
Page(id_parts, children) ==
    [block_type |-> "Page", id |-> id_parts, children |-> children]

\* isinstance(page_block, dict) and page_block.get("block_type") == "Page"
IsPage(page_block) == IsDict(page_block) /\ page_block.block_type = "Page"

\* int(s): the decimal strings the model uses; every other string raises ValueError
IntStrings == {"-1", "0", "1", "2", "3", "4"}

IntOf(s) ==
    CASE s = "-1" -> 0 - 1
      [] s = "0" -> 0 [] s = "1" -> 1 [] s = "2" -> 2 [] s = "3" -> 3 [] s = "4" -> 4

\* A variant of OriginalPageNumber that takes the id's number as it stands
OriginalPageNumber_ZeroBased(page_block, pos) ==
    LET parts == page_block.id IN
    IF parts # <<>> /\ Len(parts) > 2 /\ parts[2] = "page" /\ parts[3] \in IntStrings
    THEN IntOf(parts[3])
    ELSE pos

\* original_page_number of the page at 1-based position pos of the page list
OriginalPageNumber(page_block, pos) ==
    LET parts == page_block.id IN
    IF parts # <<>> /\ Len(parts) > 2 /\ parts[2] = "page" /\ parts[3] \in IntStrings
    THEN IntOf(parts[3]) + 1
    ELSE pos

\* temp_blocks_on_page: the page's children that are dicts
TempBlocks(page_block) == SelectSeq(page_block.children, IsDict)

\* ------------------------------------------------------------ extract_elements_from_marker

\* The element dict appended to all_elements
Element(id, type, content, image, page, marker_block_type) ==
    [id |-> id, type |-> type, content |-> content, imageData_b64 |-> image,
     original_page_number |-> page, marker_block_type |-> marker_block_type]

\* An item of the page list that is no Page dict is skipped with a warning.
ExtractSkipItem ==
    /\ pc = "extract"
    /\ page_num_idx <= Len(marker_data)
    /\ ~IsPage(marker_data[page_num_idx])
    /\ page_num_idx' = page_num_idx + 1
    /\ i' = 1
    /\ UNCHANGED <<mainVars, pc, marker_data, all_elements, origin, processed_list_group_ids,
                   processed_parent_group_ids, packVars>>

\* One pass of the while loop over the blocks of the current page.
ExtractBlock ==
    /\ pc = "extract"
    /\ page_num_idx <= Len(marker_data)
    /\ IsPage(marker_data[page_num_idx])
    /\ i <= Len(TempBlocks(marker_data[page_num_idx]))
    /\ LET page_block == marker_data[page_num_idx]
           child_block == TempBlocks(page_block)[i]
           r == ResolveBlock(child_block, processed_list_group_ids,
                             processed_parent_group_ids)
       IN
       /\ all_elements' =
              IF r.emit
              THEN Append(all_elements,
                          Element(Len(all_elements) + 1, r.type, r.content, r.image,
                                  OriginalPageNumber(page_block, page_num_idx),
                                  child_block.block_type))
              ELSE all_elements
       /\ origin' = IF r.emit THEN Append(origin, <<page_num_idx, i>>) ELSE origin
       /\ processed_list_group_ids' = r.lists
       /\ processed_parent_group_ids' = r.groups
    /\ i' = i + 1
    /\ UNCHANGED <<mainVars, pc, marker_data, page_num_idx, packVars>>

\* The while loop of a page ends; the for loop takes the next page.
ExtractNextPage ==
    /\ pc = "extract"
    /\ page_num_idx <= Len(marker_data)
    /\ IsPage(marker_data[page_num_idx])
    /\ i > Len(TempBlocks(marker_data[page_num_idx]))
    /\ page_num_idx' = page_num_idx + 1
    /\ i' = 1
    /\ UNCHANGED <<mainVars, pc, marker_data, all_elements, origin, processed_list_group_ids,
                   processed_parent_group_ids, packVars>>

\* `return all_elements`; main hands the list to assemble_slides.
ExtractReturn ==
    /\ pc = "extract"
    /\ page_num_idx > Len(marker_data)
    /\ pc' = "assemble"
    /\ elements' = all_elements
    /\ input' = all_elements
    /\ UNCHANGED <<mainVars, extractVars, idx, current_slide_elements, current_slide_text_count,
                   current_slide_image_count, current_slide_source_pages, slide_counter,
                   slides_data>>
\* ------------------------------------------------------------ assemble_slides

TextKinds ==
    {"title", "heading", "subheading", "paragraph", "list", "table", "code", "equation"}

is_image_element(el) == el.type = "image"

is_text_element(el) == el.type \in TextKinds

\* A variant of PromoteTitle that promotes every heading, not only the first element
PromoteTitle_EveryHeading(els) ==
    [k \in 1..Len(els) |-> IF els[k].type = "heading"
                            THEN [els[k] EXCEPT !.type = "title"] ELSE els[k]]

\* The title heuristic. processed_elements = list(elements) copies the list, not
\* the dicts in it, so the rewrite of processed_elements[0]["type"] is a rewrite
\* of the caller's first dict: the model keeps the dicts in `elements`.
PromoteTitle(els) ==
    IF els # <<>> /\ els[1].type = "heading"
    THEN [els EXCEPT ![1].type = "title"]
    ELSE els

\* A variant of NewSlideNeeded whose image limit is tested with > instead of >=
NewSlideNeeded_ImagesOffByOne(el, text_count, image_count) ==
    IF is_image_element(el)
    THEN \/ image_count > MAX_IMAGES_PER_SLIDE
         \/ (text_count > 0 /\ MAX_TEXT_WITH_IMAGES = 0)
         \/ (image_count = 0 /\ text_count >= MAX_TEXT_WITH_IMAGES)
    ELSE IF is_text_element(el)
    THEN \/ text_count >= MAX_TEXT_ELEMENTS_PER_SLIDE
         \/ (image_count > 0 /\ text_count >= MAX_TEXT_WITH_IMAGES)
    ELSE FALSE

\* A variant of NewSlideNeeded whose text limit is tested with > instead of >=
NewSlideNeeded_TextOffByOne(el, text_count, image_count) ==
    IF is_image_element(el)
    THEN \/ image_count >= MAX_IMAGES_PER_SLIDE
         \/ (text_count > 0 /\ MAX_TEXT_WITH_IMAGES = 0)
         \/ (image_count = 0 /\ text_count >= MAX_TEXT_WITH_IMAGES)
    ELSE IF is_text_element(el)
    THEN \/ text_count > MAX_TEXT_ELEMENTS_PER_SLIDE
         \/ (image_count > 0 /\ text_count >= MAX_TEXT_WITH_IMAGES)
    ELSE FALSE

\* A variant of NewSlideNeeded without the test for the first image of a slide
NewSlideNeeded_NoFirstImageRule(el, text_count, image_count) ==
    IF is_image_element(el)
    THEN \/ image_count >= MAX_IMAGES_PER_SLIDE
         \/ (text_count > 0 /\ MAX_TEXT_WITH_IMAGES = 0)
    ELSE IF is_text_element(el)
    THEN \/ text_count >= MAX_TEXT_ELEMENTS_PER_SLIDE
         \/ (image_count > 0 /\ text_count >= MAX_TEXT_WITH_IMAGES)
    ELSE FALSE

\* A variant of NewSlideNeeded that lets no text follow an image on its slide
NewSlideNeeded_NoTextAfterImage(el, text_count, image_count) ==
    IF is_image_element(el)
    THEN \/ image_count >= MAX_IMAGES_PER_SLIDE
         \/ (text_count > 0 /\ MAX_TEXT_WITH_IMAGES = 0)
         \/ (image_count = 0 /\ text_count >= MAX_TEXT_WITH_IMAGES)
    ELSE IF is_text_element(el)
    THEN \/ text_count >= MAX_TEXT_ELEMENTS_PER_SLIDE
         \/ image_count > 0
    ELSE FALSE

\* new_slide_needed for element el, given the counters of the current slide
NewSlideNeeded(el, text_count, image_count) ==
    IF is_image_element(el)
    THEN \/ image_count >= MAX_IMAGES_PER_SLIDE
         \/ (text_count > 0 /\ MAX_TEXT_WITH_IMAGES = 0)
         \/ (image_count = 0 /\ text_count >= MAX_TEXT_WITH_IMAGES)
    ELSE IF is_text_element(el)
    THEN \/ text_count >= MAX_TEXT_ELEMENTS_PER_SLIDE
         \/ (image_count > 0 /\ text_count >= MAX_TEXT_WITH_IMAGES)
    ELSE FALSE

\* sorted(list(pages)) for a set of page numbers
RECURSIVE SortedList(_)
SortedList(pages) ==
    IF pages = {} THEN <<>>
    ELSE LET least == CHOOSE n \in pages : \A m \in pages : n <= m
         IN <<least>> \o SortedList(pages \ {least})

\* The variables finalize_slide shares with the loop (its nonlocal names and
\* slides_data), as one value
PackState(counter, slide_elements, text_count, image_count, source_pages, slides) ==
    [slide_counter |-> counter,
     current_slide_elements |-> slide_elements,
     current_slide_text_count |-> text_count,
     current_slide_image_count |-> image_count,
     current_slide_source_pages |-> source_pages,
     slides_data |-> slides]

\* The dict of one element of a finalized slide (position is 0-based)
ElementView(el, position) ==
    [id |-> el.id, type |-> el.type, content |-> el.content,
     imageData |-> el.imageData_b64, position |-> position]

\* The slide dict; its uuid and its timestamp are left out.
Slide(number, slide_elements, source_pages) ==
    [slideNumber |-> number,
     elements |-> [k \in 1..Len(slide_elements) |-> ElementView(slide_elements[k], k - 1)],
     metadata |-> [sourcePageNumbers |-> SortedList(source_pages)]]

\* A variant of finalize_slide that numbers the slide before counting it
finalize_slide_NumberBeforeCount(st) ==
    IF st.current_slide_elements # <<>>
    THEN PackState(st.slide_counter + 1, <<>>, 0, 0, {},
                   Append(st.slides_data,
                          Slide(st.slide_counter, st.current_slide_elements,
                                st.current_slide_source_pages)))
    ELSE st

\* A variant of finalize_slide that clears the accumulator before building the slide
finalize_slide_ResetFirst(st) ==
    IF st.current_slide_elements # <<>>
    THEN PackState(st.slide_counter + 1, <<>>, 0, 0, {},
                   Append(st.slides_data, Slide(st.slide_counter + 1, <<>>, {})))
    ELSE st

\* A variant of finalize_slide that keeps the page numbers for the next slide
finalize_slide_KeepPages(st) ==
    IF st.current_slide_elements # <<>>
    THEN PackState(st.slide_counter + 1, <<>>, 0, 0, st.current_slide_source_pages,
                   Append(st.slides_data,
                          Slide(st.slide_counter + 1, st.current_slide_elements,
                                st.current_slide_source_pages)))
    ELSE st

finalize_slide(st) ==
    IF st.current_slide_elements # <<>>
    THEN PackState(st.slide_counter + 1, <<>>, 0, 0, {},
                   Append(st.slides_data,
                          Slide(st.slide_counter + 1, st.current_slide_elements,
                                st.current_slide_source_pages)))
    ELSE st

\* A variant of AddElement that puts the element at the front of the slide
AddElement_AtFront(st, el) ==
    PackState(st.slide_counter,
              <<el>> \o st.current_slide_elements,
              IF ~is_image_element(el) /\ is_text_element(el)
              THEN st.current_slide_text_count + 1 ELSE st.current_slide_text_count,
              IF is_image_element(el)
              THEN st.current_slide_image_count + 1 ELSE st.current_slide_image_count,
              st.current_slide_source_pages \cup {el.original_page_number},
              st.slides_data)

\* "Add the current element to the (potentially new) slide"
AddElement(st, el) ==
    PackState(st.slide_counter,
              Append(st.current_slide_elements, el),
              IF ~is_image_element(el) /\ is_text_element(el)
              THEN st.current_slide_text_count + 1 ELSE st.current_slide_text_count,
              IF is_image_element(el)
              THEN st.current_slide_image_count + 1 ELSE st.current_slide_image_count,
              st.current_slide_source_pages \cup {el.original_page_number},
              st.slides_data)

\* One pass of the for loop over processed_elements
StepElement(st, el) ==
    AddElement(IF /\ NewSlideNeeded(el, st.current_slide_text_count,
                                     st.current_slide_image_count)
                  /\ st.current_slide_elements # <<>>
               THEN finalize_slide(st) ELSE st,
               el)

Current ==
    PackState(slide_counter, current_slide_elements, current_slide_text_count,
              current_slide_image_count, current_slide_source_pages, slides_data)

SetPackState(st) ==
    /\ slide_counter' = st.slide_counter
    /\ current_slide_elements' = st.current_slide_elements
    /\ current_slide_text_count' = st.current_slide_text_count
    /\ current_slide_image_count' = st.current_slide_image_count
    /\ current_slide_source_pages' = st.current_slide_source_pages
    /\ slides_data' = st.slides_data

\* The call: an empty list returns at once; otherwise the locals are set and
\* the title heuristic is applied.
AssembleEnter ==
    /\ pc = "assemble"
    /\ pc' = IF elements = <<>> THEN "returned" ELSE "loop"
    /\ elements' = PromoteTitle(elements)
    /\ idx' = 1
    /\ SetPackState(PackState(0, <<>>, 0, 0, {}, <<>>))
    /\ UNCHANGED <<mainVars, extractVars, input>>

ProcessElement ==
    /\ pc = "loop"
    /\ idx <= Len(elements)
    /\ SetPackState(StepElement(Current, elements[idx]))
    /\ idx' = idx + 1
    /\ UNCHANGED <<mainVars, pc, extractVars, input, elements>>

\* "Finalize any remaining slide after the loop", and return slides_data
FinalizeEnd ==
    /\ pc = "loop"
    /\ idx > Len(elements)
    /\ SetPackState(finalize_slide(Current))
    /\ pc' = "returned"
    /\ UNCHANGED <<mainVars, extractVars, input, elements, idx>>
\* ------------------------------------------------------------ create_document_json

\* A JSON value read from the sidecar file: a list, an object with its keys,
\* or any other value
JsonList(len) == [kind |-> "list", len |-> len, keys |-> {}, title |-> <<>>, author |-> ""]

JsonDict(keys, title, author) ==
    [kind |-> "dict", len |-> Cardinality(keys), keys |-> keys,
     title |-> title, author |-> author]

JsonScalar == [kind |-> "scalar", len |-> 0, keys |-> {}, title |-> <<>>, author |-> ""]

\* The sidecar file: whether os.path.exists finds it, whether json.load
\* decodes it, and the value it decodes to
MetaFile(exists, decodes, root) == [exists |-> exists, decodes |-> decodes, root |-> root]

\* A path: directory, base name without extension, extension
PdfPath(dir, stem, ext) == [dir |-> dir, stem |-> stem, ext |-> ext]

\* os.path.splitext(os.path.basename(original_pdf_path))[0], as a text
FilenameBase(original_pdf_path) == <<original_pdf_path.stem>>

\* slides and slides[0]["elements"] and slides[0]["elements"][0]["type"] == "title"
StartsWithTitle(slides) ==
    /\ slides # <<>>
    /\ slides[1].elements # <<>>
    /\ slides[1].elements[1].type = "title"

\* A variant of DocAuthor that leaves the author out when the object declares none
DocAuthor_NoneWhenUndeclared(meta) ==
    IF meta.exists /\ meta.root.kind = "dict" /\ "author" \in meta.root.keys
    THEN meta.root.author
    ELSE Null

\* doc_author
DocAuthor(meta) ==
    IF meta.exists /\ meta.root.kind = "dict"
    THEN IF "author" \in meta.root.keys /\ Truthy(meta.root.author)
         THEN meta.root.author ELSE ""
    ELSE Null

\* doc_title
DocTitle(slides, meta, original_pdf_path) ==
    LET filename_base == FilenameBase(original_pdf_path)
        first_content == slides[1].elements[1].content
        from_meta ==
            IF ~meta.exists THEN filename_base
            ELSE IF meta.root.kind = "list" /\ meta.root.len > 0
                 THEN IF StartsWithTitle(slides) THEN first_content ELSE filename_base
                 ELSE IF meta.root.kind = "dict" /\ "title" \in meta.root.keys
                      THEN meta.root.title
                      ELSE filename_base
    IN
    IF from_meta = filename_base /\ StartsWithTitle(slides)
    THEN first_content ELSE from_meta

\* The outcome of a call: an exception, or the value returned
Raise(exception) == [raised |-> TRUE, exception |-> exception, value |-> <<>>]

Return(value) == [raised |-> FALSE, exception |-> "", value |-> <<value>>]

\* The Document; its uuid, its dates, its file size and its constant fields
\* are left out.
Document(title, author, slides, totalPages) ==
    [title |-> title, author |-> author, slides |-> slides, totalPages |-> totalPages]

create_document_json(slides, meta, original_pdf_path, total) ==
    IF meta.exists /\ ~meta.decodes
    THEN Raise("JSONDecodeError")
    ELSE Return(Document(DocTitle(slides, meta, original_pdf_path), DocAuthor(meta),
                         slides, total))

\* ------------------------------------------------------------ main

\* What a run finds: the path given and whether a file is there, --skip_marker,
\* how the call of Marker ends ("ok", "fails": non-zero exit, "not_found": no
\* such command), the Marker JSON file ("ok", "missing", "malformed") and the
\* sidecar file
Env(pdf_path, pdf_exists, skip_marker, marker, json_file, meta) ==
    [pdf_path |-> pdf_path, pdf_exists |-> pdf_exists, skip_marker |-> skip_marker,
     marker |-> marker, json_file |-> json_file, meta |-> meta]

\* `return` from main
Exit(printed_messages) ==
    /\ pc' = "exited"
    /\ messages' = messages \o printed_messages
    /\ UNCHANGED <<env, marker_data_from_json, total_pdf_pages, printed, exit_status>>

\* main goes on
Proceed(to, printed_messages) ==
    /\ pc' = to
    /\ messages' = messages \o printed_messages
    /\ UNCHANGED <<env, marker_data_from_json, total_pdf_pages, printed, exit_status>>

\* `if not os.path.exists(args.pdf_path)`
MainCheckPdf ==
    /\ pc = "main"
    /\ IF ~env.pdf_exists
       THEN Exit(<<"Error: PDF file not found">>)
       ELSE Proceed("marker", <<>>)
    /\ UNCHANGED <<extractVars, packVars>>

\* `if not args.skip_marker`: run_marker, any exception of it caught by main
MainRunMarker ==
    /\ pc = "marker"
    /\ ~env.skip_marker
    /\ CASE env.marker = "fails" ->
               Exit(<<"Error running Marker", "Failed to run Marker">>)
         [] env.marker = "not_found" \/ env.json_file = "missing" ->
               Exit(<<"Error: marker_cli command not found", "Failed to run Marker">>)
         [] OTHER -> Proceed("load", <<>>)
    /\ UNCHANGED <<extractVars, packVars>>

\* `else`: the files Marker left are looked for
MainSkipMarker ==
    /\ pc = "marker"
    /\ env.skip_marker
    /\ IF env.json_file = "missing"
       THEN Exit(<<"Error: Marker JSON file not found">>)
       ELSE Proceed("load", IF ~env.meta.exists
                            THEN <<"Warning: Marker meta JSON file not found">>
                            ELSE <<>>)
    /\ UNCHANGED <<extractVars, packVars>>

\* len([p for p in marker_data_from_json if ... p.get("block_type") == "Page"])
PageCount(data) == Cardinality({q \in 1..Len(data) : IsPage(data[q])})

\* The root of the Marker JSON: a list with its items, a dict (block_type,
\* id, children; children is empty when the dict has none), or another value
RootList(items) == [kind |-> "list", items |-> items, dict |-> NotADict]

RootDict(dict) == [kind |-> "dict", items |-> <<>>, dict |-> dict]

RootScalar == [kind |-> "scalar", items |-> <<>>, dict |-> NotADict]

\* A variant of TotalPages that counts the pages of a list only
TotalPages_ListOnly(root) ==
    IF root.kind = "list" THEN PageCount(root.items) ELSE 0

\* total_pdf_pages_calculated
TotalPages(root) ==
    CASE root.kind = "list" -> PageCount(root.items)
      [] root.kind = "dict" /\ root.dict.block_type = "Document" ->
            PageCount(root.dict.children)
      [] root.kind = "dict" /\ root.dict.block_type = "Page" -> 1
      [] OTHER -> 0

\* page_objects_to_process; a root of another shape makes
\* extract_elements_from_marker return its empty list at once
PageObjects(root) ==
    CASE root.kind = "list" -> root.items
      [] root.kind = "dict" /\ root.dict.block_type = "Document" -> root.dict.children
      [] root.kind = "dict" /\ root.dict.block_type = "Page" -> <<root.dict>>
      [] OTHER -> <<>>

\* json.load of the Marker JSON, the count of its pages, and the call of
\* extract_elements_from_marker up to its loop over the pages
MainLoadJson ==
    /\ pc = "load"
    /\ IF env.json_file = "malformed"
       THEN /\ Exit(<<"Error decoding Marker JSON file">>)
            /\ UNCHANGED marker_data
       ELSE /\ pc' = "extract"
            /\ total_pdf_pages' = TotalPages(marker_data_from_json)
            /\ marker_data' = PageObjects(marker_data_from_json)
            /\ UNCHANGED <<env, marker_data_from_json, printed, messages, exit_status>>
    /\ UNCHANGED <<page_num_idx, i, all_elements, origin, processed_list_group_ids,
                   processed_parent_group_ids, packVars>>

\* create_document_json and the print of the document; an exception of
\* create_document_json is caught nowhere.  The copy --save_json_to asks
\* for changes nothing of what is printed.
MainOutput ==
    /\ pc = "returned"
    /\ LET r == create_document_json(slides_data, env.meta, env.pdf_path, total_pdf_pages)
       IN
       /\ printed' = r.value
       /\ messages' = IF r.raised THEN Append(messages, r.exception) ELSE messages
       /\ exit_status' = IF r.raised THEN 1 ELSE 0
    /\ pc' = "exited"
    /\ UNCHANGED <<env, marker_data_from_json, total_pdf_pages, extractVars, packVars>>

\* ------------------------------------------------------------ inputs

\* Bounds of the inputs
MaxBlocks == 3

MaxElems == 3

MaxLong == 7

Img(id, payload) == [k \in {id} |-> payload]

Sub(block_type, id, html, images) == Blk(block_type, id, html, images, <<>>, {})

Caption == Sub("Caption", "c1", <<"<p>", "cap", "</p>">>, <<>>)

Item(word) == Sub("ListItem", "i1", <<"<li>", word, "</li>">>, <<>>)

Header(levels) == Blk("SectionHeader", "h1", <<"<h1>", "Intro", "</h1>">>, <<>>, <<>>, levels)

TextA == Sub("Text", "t1", <<"<p>", "A", "</p>">>, <<>>)

\* a paragraph that carries the id of the groups
TextG == Sub("TextInlineMath", "g1", <<"<p>", "B", "<br>", "C", "</p>">>, <<>>)

FigureP == Sub("Figure", "f1", <<"<p>", "Figure", "</p>">>, Img("f1", "P1"))

\* a group whose Figure child has its payload, and a caption
GroupP == Blk("FigureGroup", "g1", <<>>, <<>>,
              <<Caption, Sub("Figure", "f1", <<>>, Img("f1", "P1"))>>, {})

\* a group whose Figure child has no payload, and no caption
GroupN == Blk("FigureGroup", "g1", <<>>, <<>>, <<Sub("Figure", "f1", <<>>, <<>>)>>, {})

ListL == Blk("ListGroup", "l1", <<>>, <<>>, <<Item("x"), Caption, Item("y")>>, {})

\* a list that carries the id of the groups
ListG == Blk("ListGroup", "g1", <<>>, <<>>, <<Item("z")>>, {})

CoreBlocks == {Header({}), TextA, TextG, FigureP, GroupP, GroupN, ListL, ListG}

SectionHeaders == {Header(levels) : levels \in {{}, {"2", "4"}, {"3"}}}

\* a paragraph of whitespace
TextE == Sub("Text", "t1", <<"<p>", WS, "</p>">>, <<>>)

Texts == {TextA, TextG, Caption, TextE}

Figures ==
    {FigureP,
     Sub("Picture", "f1", <<"<p>", "cap", "</p>">>, Img("f1", "P1")),
     Sub("Figure", "g1", <<"cap">>, Img("f1", "P2")),
     Sub("Figure", "f1", <<>>, Img("f1", "")),
     Sub("Picture", "f1", <<"cap">>, Img("f1", ""))}

Groups ==
    {GroupP, GroupN,
     Blk("FigureGroup", "g1", <<>>, <<>>, <<Sub("Figure", "f1", <<>>, <<>>), Caption>>, {}),
     Blk("FigureGroup", "g1", <<"FigureGroup">>, <<>>, <<Caption>>, {}),
     Blk("PictureGroup", "g1", <<"cap">>, Img("g1", "P2") @@ Img("p1", "P2"),
         <<Sub("Picture", "p1", <<>>, <<>>)>>, {}),
     Blk("PictureGroup", Null, <<"PictureGroup">>, Img("g1", "P2"),
         <<NotADict, Sub("Picture", "p1", <<>>, Img("p1", "P1") @@ Img("g1", "P2"))>>, {})}

Lists ==
    {ListL, ListG,
     Blk("ListGroup", "l1", <<>>, <<>>, <<>>, {}),
     Blk("ListGroup", Null, <<>>, <<>>, <<Item("x")>>, {})}

Others ==
    {Item("x"),
     Sub("Foo", "t1", <<"A">>, <<>>),
     Sub("PageFooter", "t1", <<"A">>, <<>>),
     Blk("TableGroup", "t1", <<"table">>, Img("t1", "P2"),
         <<Sub("Table", "c1", <<"a">>, <<>>), Sub("Table", "c2", <<>>, <<>>),
           NotADict, Sub("Table", "c3", <<"b">>, <<>>)>>, {}),
     Sub("Code", "t1", <<"<p>", "x", "</p>">>, <<>>),
     Sub("Equation", "t1", <<"Equation">>, <<>>)}

\* The page-level blocks the inputs are made of
Blocks == SectionHeaders \cup Texts \cup Figures \cup Groups \cup Lists \cup Others

\* The id Marker gives the page at 0-based index n
MarkerPageId(n) == <<"", "page", CHOOSE s \in IntStrings : IntOf(s) = n, "Page", "0">>

\* The scenario of the specification: one page with a SectionHeader ("Intro"),
\* two Text blocks ("A", "B") and a Figure with its image payload
ScenarioDoc ==
    <<Page(MarkerPageId(0),
           <<Header({"1"}),
             Sub("Text", "t1", <<"<p>", "A", "</p>">>, <<>>),
             Sub("Text", "t2", <<"<p>", "B", "</p>">>, <<>>),
             Sub("Figure", "f1", <<>>, Img("f1", "P1"))>>)>>

\* Two pages holding the blocks bs, the first cut of them on the first page
TwoPages(bs, cut) ==
    <<Page(MarkerPageId(0), SubSeq(bs, 1, cut)),
      Page(MarkerPageId(1), SubSeq(bs, cut + 1, Len(bs)))>>

\* Page ids: none, Marker's form, and ids whose second or third part is not
\* as Marker writes it
PageIds ==
    {<<>>, <<"", "page", "4", "Page", "4">>, <<"", "page", "-1">>, <<"", "page", "x">>,
     <<"", "page">>, <<"doc">>, <<"", "pages", "2">>}

\* Two pages with the ids id1 and id2
IdPages(id1, id2) == <<Page(id1, <<TextA>>), Page(id2, <<FigureP, TextA>>)>>

\* Page lists:
\*   every sequence of at most MaxBlocks core blocks, cut into two pages at every place;
\*   every block alone, and every ordered pair of blocks on one page and on two pages;
\*   a page list with items that are no Page; the empty list; the scenario;
\*   two pages with every pair of page ids.
IsDoc(doc) ==
    \/ \E n \in 0..MaxBlocks : \E bs \in [1..n -> CoreBlocks] : \E cut \in 0..n :
          doc = TwoPages(bs, cut)
    \/ \E a \in Blocks : doc = TwoPages(<<a>>, Len(<<a>>))
    \/ \E a \in Blocks, b \in Blocks : \E cut \in {Len(<<a>>), Len(<<a, b>>)} :
          doc = TwoPages(<<a, b>>, cut)
    \/ doc \in {<<NotADict, TextA, Page(<<>>, <<NotADict, TextA>>)>>, <<>>, ScenarioDoc}
    \/ \E id1 \in PageIds, id2 \in PageIds : doc = IdPages(id1, id2)

\* The elements assemble_slides is called with when it is called on its own:
\* a kind and a page number for each element.
Kinds == TextKinds \cup {"image"}

Letter(type, page) == [type |-> type, page |-> page]

Letters == {Letter(k, 1) : k \in Kinds} \cup {Letter("paragraph", 2), Letter("image", 2)}

LongLetters == {Letter("heading", 1), Letter("paragraph", 2), Letter("image", 1)}

Words == <<"w1", "w2", "w3", "w4", "w5", "w6", "w7", "w8", "w9">>

\* Element k of an input: its id and its text are its own
InputElement(k, letter) ==
    IF letter.type = "image"
    THEN Element(k, "image", <<>>, "P1", letter.page, "Figure")
    ELSE Element(k, letter.type, <<Words[k]>>, Null, letter.page, "Text")

InputOf(letters) == [k \in 1..Len(letters) |-> InputElement(k, letters[k])]

\* Every sequence of at most MaxElems elements of every kind, and the longer
\* sequences, up to MaxLong, of headings, paragraphs and images.
IsAssembleInput(els) ==
    \/ \E n \in 0..MaxElems : \E ls \in [1..n -> Letters] : els = InputOf(ls)
    \/ \E n \in (MaxElems + 1)..MaxLong : \E ls \in [1..n -> LongLetters] : els = InputOf(ls)

\* The sidecar files: none, one that does not decode, lists, a scalar, and
\* objects with and without a title (empty, "T", the base name of the PDF)
\* and an author (empty, "A")
MetaTitles == {<<>>, <<"T">>, <<"doc">>}

MetaAuthors == {"", "A"}

NoMeta == MetaFile(FALSE, FALSE, JsonScalar)

MetaDicts ==
    {JsonDict(keys, IF "title" \in keys THEN title ELSE <<>>,
              IF "author" \in keys THEN author ELSE "") :
        keys \in SUBSET {"title", "author"}, title \in MetaTitles, author \in MetaAuthors}

Metas ==
    {NoMeta, MetaFile(TRUE, FALSE, JsonScalar)}
        \cup {MetaFile(TRUE, TRUE, root) :
                 root \in {JsonList(0), JsonList(1), JsonScalar} \cup MetaDicts}

ThePdf == PdfPath("dir", "doc", "pdf")

\* A run that finds the PDF and the Marker JSON, Marker skipped
PlainEnv(meta) == Env(ThePdf, TRUE, TRUE, "ok", "ok", meta)

\* Every run: the PDF there or not, Marker skipped or run with each outcome,
\* every state of the Marker JSON file, every sidecar file
Envs ==
    {Env(ThePdf, pdf_exists, skip_marker, marker, json_file, meta) :
        pdf_exists \in BOOLEAN, skip_marker \in BOOLEAN,
        marker \in {"ok", "fails", "not_found"},
        json_file \in {"ok", "missing", "malformed"}, meta \in Metas}

\* The page lists of the runs of main
MainDocs ==
    {<<>>, ScenarioDoc, TwoPages(<<TextA, FigureP>>, Len(<<TextA>>)),
     <<NotADict, TextA, Page(<<>>, <<NotADict, TextA>>)>>}

\* a dict that is no block of Marker's
OtherDict == [block_type |-> "Foo", id |-> <<>>, children |-> ScenarioDoc]

DocumentRoot(pages) == RootDict([block_type |-> "Document", id |-> <<>>, children |-> pages])

\* The roots of the runs of main: the page lists, Documents with and without
\* children, a single Page, a dict of another type, a value that is neither
\* list nor dict
MainRoots ==
    {RootList(doc) : doc \in MainDocs}
        \cup {DocumentRoot(doc) : doc \in MainDocs}
        \cup {RootDict(ScenarioDoc[1]),
              RootDict(Page(<<"", "page", "4", "Page", "4">>, <<FigureP, TextA>>)),
              RootDict(OtherDict), RootScalar}

\* The elements of the runs of create_document_json: at most MaxTitled
\* headings, paragraphs and images
MaxTitled == 2

TitleLetters == {Letter("heading", 1), Letter("paragraph", 1), Letter("image", 1)}

IsTitledInput(els) ==
    \E n \in 0..MaxTitled : \E ls \in [1..n -> TitleLetters] : els = InputOf(ls)

\* ------------------------------------------------------------ specifications

\* Nothing printed yet; the status is the one of a main that returns
InitMain ==
    /\ printed = <<>>
    /\ messages = <<>>
    /\ exit_status = 0


InitExtract ==
    /\ page_num_idx = 1
    /\ i = 1
    /\ all_elements = <<>>
    /\ origin = <<>>
    /\ processed_list_group_ids = {}
    /\ processed_parent_group_ids = {}

InitPack ==
    /\ idx = 1
    /\ current_slide_elements = <<>>
    /\ current_slide_text_count = 0
    /\ current_slide_image_count = 0
    /\ current_slide_source_pages = {}
    /\ slide_counter = 0
    /\ slides_data = <<>>

\* main from the point where the Marker JSON is loaded: the page list is
\* flattened and the elements are packed.
Init ==
    /\ pc = "extract"
    /\ IsDoc(marker_data)
    /\ env = PlainEnv(NoMeta)
    /\ marker_data_from_json = RootList(marker_data)
    /\ total_pdf_pages = TotalPages(marker_data_from_json)
    /\ InitMain
    /\ InitExtract
    /\ input = <<>>
    /\ elements = <<>>
    /\ InitPack

Next ==
    \/ ExtractSkipItem
    \/ ExtractBlock
    \/ ExtractNextPage
    \/ ExtractReturn
    \/ AssembleEnter
    \/ ProcessElement
    \/ FinalizeEnd

Spec == Init /\ [][Next]_vars

\* assemble_slides called on its own with a list of elements
InitAssemble ==
    /\ pc = "assemble"
    /\ marker_data = <<>>
    /\ env = PlainEnv(NoMeta)
    /\ marker_data_from_json = RootList(marker_data)
    /\ total_pdf_pages = 0
    /\ InitMain
    /\ InitExtract
    /\ IsAssembleInput(elements)
    /\ input = elements
    /\ InitPack

NextAssemble ==
    \/ AssembleEnter
    \/ ProcessElement
    \/ FinalizeEnd

SpecAssemble == InitAssemble /\ [][NextAssemble]_vars

\* main from its first line
InitRun ==
    /\ pc = "main"
    /\ marker_data = <<>>
    /\ marker_data_from_json \in MainRoots
    /\ env \in Envs
    /\ env.skip_marker => env.marker = "ok"
    /\ total_pdf_pages = 0
    /\ InitMain
    /\ InitExtract
    /\ input = <<>>
    /\ elements = <<>>
    /\ InitPack

NextRun ==
    \/ MainCheckPdf
    \/ MainRunMarker
    \/ MainSkipMarker
    \/ MainLoadJson
    \/ ExtractSkipItem
    \/ ExtractBlock
    \/ ExtractNextPage
    \/ ExtractReturn
    \/ AssembleEnter
    \/ ProcessElement
    \/ FinalizeEnd
    \/ MainOutput

SpecRun == InitRun /\ [][NextRun]_vars

\* assemble_slides and create_document_json on a list of elements, with every
\* sidecar file
InitDocument ==
    /\ pc = "assemble"
    /\ marker_data = <<>>
    /\ \E meta \in Metas : env = PlainEnv(meta)
    /\ marker_data_from_json = RootList(marker_data)
    /\ total_pdf_pages = 1
    /\ InitMain
    /\ InitExtract
    /\ IsTitledInput(elements)
    /\ input = elements
    /\ InitPack

NextDocument ==
    \/ AssembleEnter
    \/ ProcessElement
    \/ FinalizeEnd
    \/ MainOutput

SpecDocument == InitDocument /\ [][NextDocument]_vars
\* ------------------------------------------------------------ properties of the slides

\* The number of elements of a finalized slide that are of one of the kinds
CountOn(slide, kinds) ==
    Cardinality({k \in 1..Len(slide.elements) : slide.elements[k].type \in kinds})

ImagesOn(slide) == CountOn(slide, {"image"})

TextsOn(slide) == CountOn(slide, TextKinds)

\* The element dicts of the slides, in slide order and in the order they have on each slide
RECURSIVE FlatViews(_)
FlatViews(slides) ==
    IF slides = <<>> THEN <<>> ELSE slides[1].elements \o FlatViews(Tail(slides))

Returned == pc = "returned"

\* C1: every emitted slide holds at most 2 images and at most 3 text-like
\* elements, and at most 1 text-like element when it holds an image.
C1_SlideCapacity ==
    \A k \in 1..Len(slides_data) :
        /\ ImagesOn(slides_data[k]) <= 2
        /\ TextsOn(slides_data[k]) <= 3
        /\ (ImagesOn(slides_data[k]) > 0 => TextsOn(slides_data[k]) <= 1)

\* a run that has emitted a slide full of text and a slide full of images with its one text
C1_Witness ==
    /\ Returned
    /\ \E a, b \in 1..Len(slides_data) :
          /\ TextsOn(slides_data[a]) = 3
          /\ ImagesOn(slides_data[b]) = 2 /\ TextsOn(slides_data[b]) = 1

\* C2: the slide numbers are 1, 2, ..., N in output order.
C2_SlideNumbers ==
    \A k \in 1..Len(slides_data) : slides_data[k].slideNumber = k

C2_Witness == Returned /\ Len(slides_data) >= 3

\* C3: no emitted slide has an empty list of elements, whether it was finalized
\* for a split or at the end of the pass.
C3_NoEmptySlide ==
    \A k \in 1..Len(slides_data) : slides_data[k].elements # <<>>

\* a run with a slide finalized for a split and a slide finalized at the end
C3_Witness ==
    /\ Returned
    /\ Len(slides_data) = 2
    /\ Len(slides_data[1].elements) + Len(slides_data[2].elements) = Len(input)

\* C4: the elements of the returned slides, in slide order and position order,
\* are the input elements in the input's order, each once; position is the
\* 0-based place on the slide.
C4_SequencePreserved ==
    Returned =>
        /\ [k \in 1..Len(FlatViews(slides_data)) |-> FlatViews(slides_data)[k].id]
             = [k \in 1..Len(input) |-> input[k].id]
        /\ \A n \in 1..Len(slides_data) : \A k \in 1..Len(slides_data[n].elements) :
              slides_data[n].elements[k].position = k - 1

\* a run whose input is spread over several slides holding several elements
C4_Witness ==
    /\ Returned
    /\ Len(input) >= 5
    /\ Len(slides_data) >= 2
    /\ \A n \in 1..Len(slides_data) : Len(slides_data[n].elements) >= 2

\* C5: a heading that is the first element of the input comes out as a title
\* with the same text, as the first element of the first slide; every other
\* element, a heading elsewhere included, keeps its kind.
C5_TitlePromotion ==
    (Returned /\ input # <<>>) =>
        LET out == FlatViews(slides_data) IN
        /\ Len(out) = Len(input)
        /\ slides_data[1].elements[1].type =
              (IF input[1].type = "heading" THEN "title" ELSE input[1].type)
        /\ slides_data[1].elements[1].content = input[1].content
        /\ \A k \in 2..Len(input) : out[k].type = input[k].type

\* a run whose input starts with a heading and has a heading that opens a later slide
C5_Witness ==
    /\ Returned
    /\ input # <<>>
    /\ input[1].type = "heading"
    /\ Len(slides_data) >= 2
    /\ slides_data[1].elements[1].type = "title"
    /\ slides_data[2].elements[1].type = "heading"

\* C8: n >= 1 text-like elements and no image give ceil(n/3) slides, each of 3
\* elements but the last, which holds the rest.
C8_TextRun ==
    (Returned /\ input # <<>> /\ \A k \in 1..Len(input) : is_text_element(input[k])) =>
        LET n == Len(input)
            slides == (n + 2) \div 3
        IN
        /\ Len(slides_data) = slides
        /\ \A k \in 1..(slides - 1) : Len(slides_data[k].elements) = 3
        /\ Len(slides_data[slides].elements) = n - 3 * (slides - 1)

\* five text-like elements: two slides holding 3 and 2
C8_Witness ==
    /\ Returned
    /\ Len(input) = 5
    /\ \A k \in 1..Len(input) : is_text_element(input[k])
    /\ Len(slides_data) = 2
    /\ Len(slides_data[1].elements) = 3
    /\ Len(slides_data[2].elements) = 2
\* ------------------------------------------------------------ properties of the elements

\* The places of the page-level blocks: <<position of the page, position in temp_blocks_on_page>>
Places ==
    UNION {{<<p, k>> : k \in 1..Len(TempBlocks(marker_data[p]))} :
              p \in {q \in 1..Len(marker_data) : IsPage(marker_data[q])}}

BlockAt(pl) == TempBlocks(marker_data[pl[1]])[pl[2]]

\* traversal order
Before(a, b) == a[1] < b[1] \/ (a[1] = b[1] /\ a[2] < b[2])

\* the loop has been over the block at this place
Passed(pl) ==
    pc # "extract" \/ pl[1] < page_num_idx \/ (pl[1] = page_num_idx /\ pl[2] < i)

\* the elements made from the block at a place
ElementsFrom(pl) == {e \in 1..Len(all_elements) : origin[e] = pl}

IsGroup(block) == block.block_type \in {"FigureGroup", "PictureGroup"}

\* C6: the scenario (SectionHeader "Intro", Text "A", Text "B", Figure with its
\* payload, on one page) gives exactly slide 1 = [title "Intro", paragraph "A",
\* paragraph "B"] and slide 2 = [image].
C6_Scenario ==
    (Returned /\ marker_data = ScenarioDoc) =>
        /\ Len(slides_data) = 2
        /\ [k \in 1..Len(slides_data[1].elements) |->
               <<slides_data[1].elements[k].type, slides_data[1].elements[k].content>>]
             = << <<"title", <<"Intro">> >>, <<"paragraph", <<"A">> >>,
                  <<"paragraph", <<"B">> >> >>
        /\ [k \in 1..Len(slides_data[2].elements) |->
               <<slides_data[2].elements[k].type, slides_data[2].elements[k].imageData>>]
             = << <<"image", "P1">> >>

\* The kind the mapping table gives a SectionHeader: heading without a
\* section_hierarchy or when its smallest level key is "1" or "2", else subheading
HeaderKind(block) ==
    IF block.section_hierarchy = {} THEN "heading"
    ELSE LET least == CHOOSE a \in block.section_hierarchy :
                          \A b \in block.section_hierarchy : IntOf(a) <= IntOf(b)
         IN IF least \in {"1", "2"} THEN "heading" ELSE "subheading"

\* C7: a SectionHeader is classified heading or subheading by its
\* section_hierarchy, so a page-level SectionHeader with text gives an element of
\* that kind.
C7_SectionHeaderKind ==
    \A pl \in Places :
        (Passed(pl) /\ BlockAt(pl).block_type = "SectionHeader") =>
            /\ get_block_semantic_type(BlockAt(pl)) = HeaderKind(BlockAt(pl))
            /\ get_clean_text(BlockAt(pl).html) # <<>> =>
                   \E e \in ElementsFrom(pl) : all_elements[e].type = HeaderKind(BlockAt(pl))

\* the Figure/Picture children of a group, and whether none has its payload
\* under its own id in its own images
FigureChildren(block) ==
    {k \in 1..Len(block.children) :
        IsDict(block.children[k]) /\ block.children[k].block_type \in {"Figure", "Picture"}}

LacksPayload(block) ==
    /\ IsGroup(block)
    /\ FigureChildren(block) # {}
    /\ \A k \in FigureChildren(block) :
          ~HasImage(block.children[k], block.children[k].id)

\* whether a group has caption text: a Caption child with text, or text of its own
HasCaptionText(block) ==
    \/ \E k \in 1..Len(block.children) :
          /\ IsDict(block.children[k])
          /\ block.children[k].block_type = "Caption"
          /\ get_clean_text(block.children[k].html) # <<>>
    \/ get_clean_text(block.html) # <<>>

\* C9: a page-level group whose Figure/Picture child has no payload under its
\* own id gives no image element, and no element at all without caption text;
\* the blocks after it are processed: a plain Text block after it gives its paragraph.
C9_GroupWithoutPayload ==
    \A pl \in Places :
        (Passed(pl) /\ LacksPayload(BlockAt(pl))) =>
            /\ \A e \in ElementsFrom(pl) : all_elements[e].type # "image"
            /\ ~HasCaptionText(BlockAt(pl)) => ElementsFrom(pl) = {}
            /\ \A nx \in Places :
                  (Before(pl, nx) /\ Passed(nx) /\ BlockAt(nx) = TextA) =>
                      \E e \in ElementsFrom(nx) :
                          /\ all_elements[e].type = "paragraph"
                          /\ all_elements[e].content = <<"A">>

\* a group without payload and without caption, then a Text block: one paragraph comes out
C9_Witness ==
    /\ pc # "extract"
    /\ marker_data = TwoPages(<<GroupN, TextA>>, Len(<<GroupN, TextA>>))
    /\ Len(all_elements) = 1
    /\ all_elements[1].type = "paragraph"

\* the places of the page-level ListGroup blocks with a given id
ListPlaces(id) ==
    {pl \in Places : BlockAt(pl).block_type = "ListGroup" /\ BlockAt(pl).id = id}

FirstPlace(places) == CHOOSE a \in places : \A b \in places : a = b \/ Before(a, b)

\* the ids of the page-level ListGroup blocks that have one
ListIds ==
    {BlockAt(pl).id : pl \in {a \in Places : BlockAt(a).block_type = "ListGroup"}}
        \ {Null, ""}

C11_ContentOrImage ==
    /\ \A e \in 1..Len(all_elements) :
          all_elements[e].content # <<>> \/ Truthy(all_elements[e].imageData_b64)
    /\ \A pl \in Places :
          ( /\ Passed(pl)
            /\ \/ /\ BlockAt(pl).block_type \in {"Text", "TextInlineMath", "Caption", "Code"}
                  /\ get_clean_text(BlockAt(pl).html) = <<>>
               \/ /\ BlockAt(pl).block_type \in {"Figure", "Picture"}
                  /\ get_clean_text(BlockAt(pl).html) = <<>>
                  /\ \A key \in DOMAIN BlockAt(pl).images : ~Truthy(BlockAt(pl).images[key]) )
          => ElementsFrom(pl) = {}

\* a paragraph of whitespace and a Figure with an empty payload: no element
C11_Witness ==
    /\ pc # "extract"
    /\ marker_data = TwoPages(<<TextE, Sub("Figure", "f1", <<>>, Img("f1", ""))>>, Len(<<TextE>>))
    /\ all_elements = <<>>

\* the block types the mapping table names
KnownBlockTypes ==
    {"SectionHeader", "Text", "TextInlineMath", "ListGroup", "ListItem", "Table",
     "TableGroup", "Code", "Equation", "Caption", "Page"}
        \cup VISUAL_IMAGE_BLOCK_TYPES \cup IGNORED_BLOCK_TYPES

\* C12: every element, extracted or on a slide, has one of the nine kinds; a
\* page-level ListItem and a block of unknown type give no element, and the
\* blocks after them are processed.
C12_KindsOnly ==
    /\ \A e \in 1..Len(all_elements) : all_elements[e].type \in Kinds
    /\ \A n \in 1..Len(slides_data) : \A k \in 1..Len(slides_data[n].elements) :
          slides_data[n].elements[k].type \in Kinds
    /\ \A pl \in Places :
          ( /\ Passed(pl)
            /\ \/ BlockAt(pl).block_type = "ListItem"
               \/ BlockAt(pl).block_type \notin KnownBlockTypes )
          => /\ ElementsFrom(pl) = {}
             /\ \A nx \in Places :
                   (Before(pl, nx) /\ Passed(nx) /\ BlockAt(nx) = TextA) =>
                       \E e \in ElementsFrom(nx) : all_elements[e].type = "paragraph"

\* a page-level ListItem, then a Text block: only the paragraph comes out
C12_Witness ==
    /\ Returned
    /\ marker_data = TwoPages(<<Item("x"), TextA>>, Len(<<Item("x"), TextA>>))
    /\ Len(all_elements) = 1
    /\ Len(slides_data) = 1
    /\ slides_data[1].elements[1].type = "paragraph"
\* the page number the id of a page states, if it states one
StatedPage(id_parts) ==
    IF Len(id_parts) >= 3
    THEN IF id_parts[2] = "page" /\ id_parts[3] \in IntStrings
         THEN {IntOf(id_parts[3]) + 1} ELSE {}
    ELSE {}

\* C13: an element's page number is the 1-based position of its page in the
\* page list, unless the page id has "page" as second part and an integer k as
\* third part, and then it is k + 1; the elements of one page share the number.
C13_SourcePage ==
    \A e \in 1..Len(all_elements) :
        LET p == origin[e][1]
            stated == StatedPage(marker_data[p].id)
        IN
        /\ stated = {} => all_elements[e].original_page_number = p
        /\ stated # {} => all_elements[e].original_page_number \in stated
        /\ \A f \in 1..Len(all_elements) :
              origin[f][1] = p =>
                  all_elements[f].original_page_number = all_elements[e].original_page_number

\* first page "/page/4/Page/4", second page "/page/x": numbers 5 and 2
C13_Witness ==
    /\ pc # "extract"
    /\ marker_data = IdPages(<<"", "page", "4", "Page", "4">>, <<"", "page", "x">>)
    /\ Len(all_elements) = 3
    /\ all_elements[1].original_page_number = 5
    /\ all_elements[2].original_page_number = 2
    /\ all_elements[3].original_page_number = 2
\* the page numbers of the input elements that are on a slide
PagesOf(slide) ==
    {input[e].original_page_number :
        e \in {f \in 1..Len(input) :
                 \E k \in 1..Len(slide.elements) : slide.elements[k].id = input[f].id}}

\* C14: the source pages of a slide are strictly ascending, and they are the
\* page numbers of the elements on that slide, those of no other slide added.
C14_SourcePages ==
    \A n \in 1..Len(slides_data) :
        LET pages == slides_data[n].metadata.sourcePageNumbers IN
        /\ \A a \in 1..Len(pages), b \in 1..Len(pages) : a < b => pages[a] < pages[b]
        /\ {pages[a] : a \in 1..Len(pages)} = PagesOf(slides_data[n])

\* images of pages 2, 1, 1: the first slide has pages 1 and 2, the second page 1
C14_Witness ==
    /\ Returned
    /\ Len(input) = 3
    /\ \A e \in 1..3 : input[e].type = "image"
    /\ <<input[1].original_page_number, input[2].original_page_number,
         input[3].original_page_number>> = <<2, 1, 1>>
    /\ Len(slides_data) = 2
    /\ slides_data[1].metadata.sourcePageNumbers = <<1, 2>>
    /\ slides_data[2].metadata.sourcePageNumbers = <<1>>
\* the block an element was made from
BlockOf(e) == BlockAt(origin[e])

\* the payloads a block and its children hold
PayloadsIn(block) ==
    {block.images[key] : key \in DOMAIN block.images}
        \cup UNION {{block.children[k].images[key] : key \in DOMAIN block.children[k].images} :
                       k \in {j \in 1..Len(block.children) : IsDict(block.children[j])}}

\* the view of an extracted element on the slides
ViewsOf(e) ==
    {v \in UNION {{slides_data[n].elements[k] : k \in 1..Len(slides_data[n].elements)} :
                      n \in 1..Len(slides_data)} :
        v.id = all_elements[e].id}

\* C15: an element has image data only if it is an image and a payload of its
\* block was found; the elements of the text kinds have none, extracted or on
\* a slide.
C15_ImageDataOnlyOnImages ==
    /\ \A e \in 1..Len(all_elements) :
          /\ all_elements[e].type \in TextKinds => all_elements[e].imageData_b64 = Null
          /\ all_elements[e].imageData_b64 # Null =>
                /\ all_elements[e].type = "image"
                /\ all_elements[e].imageData_b64 \in PayloadsIn(BlockOf(e))
    /\ \A n \in 1..Len(slides_data) : \A k \in 1..Len(slides_data[n].elements) :
          slides_data[n].elements[k].imageData # Null =>
              slides_data[n].elements[k].type = "image"

\* a TableGroup that holds a payload under its id, then a Figure: the table
\* has no image data on its slide, the image has
C15_Witness ==
    /\ Returned
    /\ Len(all_elements) = 2
    /\ BlockOf(1).block_type = "TableGroup"
    /\ PayloadsIn(BlockOf(1)) # {}
    /\ BlockOf(2) = FigureP
    /\ \E v \in ViewsOf(1) : v.type = "table" /\ v.imageData = Null
    /\ \E v \in ViewsOf(2) : v.type = "image" /\ v.imageData = "P1"

\* C16: the payload of an image element is the one of the input: for a Figure
\* or Picture met directly, the entry of its own mapping under its own id; for
\* a group, the entry of a Figure/Picture child's own mapping under the child's
\* id; and the slides carry it as it was extracted.
C16_PayloadFromInput ==
    \A e \in 1..Len(all_elements) :
        all_elements[e].type = "image" =>
            LET block == BlockOf(e)
                payload == all_elements[e].imageData_b64
            IN
            /\ ~IsGroup(block) =>
                  /\ block.block_type \in {"Figure", "Picture"}
                  /\ HasImage(block, block.id)
                  /\ payload = block.images[block.id]
            /\ IsGroup(block) =>
                  \E k \in 1..Len(block.children) :
                      /\ IsDict(block.children[k])
                      /\ block.children[k].block_type \in {"Figure", "Picture"}
                      /\ HasImage(block.children[k], block.children[k].id)
                      /\ payload = block.children[k].images[block.children[k].id]
            /\ \A v \in ViewsOf(e) : v.imageData = payload
            /\ Returned => ViewsOf(e) # {}

\* a group without id whose Picture child holds P1 under its id and P2 under
\* another, then a Figure with P1: both slides' images carry P1
C16_Witness ==
    /\ Returned
    /\ Len(all_elements) = 2
    /\ IsGroup(BlockOf(1))
    /\ "P2" \in PayloadsIn(BlockOf(1))
    /\ BlockOf(2) = FigureP
    /\ \A e \in 1..2 : \E v \in ViewsOf(e) : v.imageData = "P1"
\* ------------------------------------------------------------ properties of the document

Exited == pc = "exited"

\* the sidecar file was read as an object
MetaObject == env.meta.exists /\ env.meta.decodes /\ env.meta.root.kind = "dict"

\* the title the rules (2) and (3) give: the text of the title element that
\* opens the first slide, or else the base name of the source file
FallbackTitle ==
    IF slides_data # <<>> /\ slides_data[1].elements[1].type = "title"
    THEN slides_data[1].elements[1].content
    ELSE <<env.pdf_path.stem>>

\* C17: the title of the document is the title of the sidecar when it has a
\* non-empty one, else the text of the title element that opens the first
\* slide, else the base name of the source file.
C17_TitleResolution ==
    \A d \in 1..Len(printed) :
        printed[d].title =
            IF MetaObject /\ "title" \in env.meta.root.keys /\ env.meta.root.title # <<>>
            THEN env.meta.root.title
            ELSE FallbackTitle

\* C18 as stated: the author is the one the sidecar declares, and null in
\* every other case, a sidecar object without author among them.
C18_AuthorOrNull ==
    \A d \in 1..Len(printed) :
        printed[d].author =
            IF MetaObject /\ "author" \in env.meta.root.keys
            THEN env.meta.root.author
            ELSE Null

\* C18, amended: the author is null when there is no sidecar or the sidecar
\* is no object; for a sidecar object it is the author declared when that is
\* not empty, and the empty string otherwise.
C18_Author ==
    \A d \in 1..Len(printed) :
        /\ ~MetaObject => printed[d].author = Null
        /\ MetaObject =>
              /\ ("author" \in env.meta.root.keys /\ env.meta.root.author # "")
                    => printed[d].author = env.meta.root.author
              /\ ("author" \notin env.meta.root.keys \/ env.meta.root.author = "")
                    => printed[d].author = ""

\* a sidecar object with a title and no author: the author is the empty string
C18_Witness ==
    /\ Exited
    /\ MetaObject
    /\ env.meta.root.keys = {"title"}
    /\ Len(printed) = 1
    /\ printed[1].author = ""

\* one of the fatal conditions holds: the source document is missing, Marker
\* fails or leaves no output file, the Marker JSON does not parse
Fatal ==
    \/ ~env.pdf_exists
    \/ ~env.skip_marker /\ env.marker # "ok"
    \/ env.json_file # "ok"

\* C19: with the sidecar missing or malformed, and no fatal condition, the
\* run ends with a document printed whose title and author are the fallbacks.
C19_SidecarNonFatal ==
    (Exited /\ ~Fatal /\ (~env.meta.exists \/ ~env.meta.decodes)) =>
        /\ Len(printed) = 1
        /\ printed[1].title = FallbackTitle
        /\ printed[1].author = Null

\* C20: a run with a fatal condition ends with a status that is not zero,
\* with a message, and with no document printed.
C20_FatalExit ==
    (Exited /\ Fatal) =>
        /\ exit_status # 0
        /\ messages # <<>>
        /\ printed = <<>>
\* the Page blocks among the items of a list
PagesAmong(items) ==
    {q \in 1..Len(items) : IsDict(items[q]) /\ items[q].block_type = "Page"}

\* the number of Page blocks at the root of the Marker JSON
PagesAtRoot ==
    LET root == marker_data_from_json IN
    IF root.kind = "list" THEN Cardinality(PagesAmong(root.items))
    ELSE IF root.kind = "dict"
         THEN IF root.dict.block_type = "Document"
              THEN Cardinality(PagesAmong(root.dict.children))
              ELSE IF root.dict.block_type = "Page" THEN 1 ELSE 0
         ELSE 0

\* an empty list of pages, or a Document without children
EmptyTree ==
    \/ marker_data_from_json = RootList(<<>>)
    \/ marker_data_from_json = DocumentRoot(<<>>)

\* C21: the totalPages of a document printed is the number of Page blocks at
\* the root, however many elements and slides there are; for an empty block
\* tree the run prints a document with no slides and totalPages 0.
C21_TotalPages ==
    /\ \A d \in 1..Len(printed) : printed[d].totalPages = PagesAtRoot
    /\ (Exited /\ EmptyTree /\ ~Fatal /\ (~env.meta.exists \/ env.meta.decodes)) =>
          /\ Len(printed) = 1
          /\ printed[1].slides = <<>>
          /\ printed[1].totalPages = 0

\* a Document without children: a document with no slides and no pages is printed
C21_Witness ==
    /\ Exited
    /\ marker_data_from_json = DocumentRoot(<<>>)
    /\ Len(printed) = 1
    /\ printed[1].slides = <<>>
    /\ printed[1].totalPages = 0
\* ------------------------------------------------------------ properties of the splits

\* the kinds of the elements of a slide, or of the slide in progress
KindsOf(slide_elements) == [k \in 1..Len(slide_elements) |-> slide_elements[k].type]

NumberOf(kinds, wanted) == Cardinality({k \in 1..Len(kinds) : kinds[k] \in wanted})

\* a slide of these kinds breaks a capacity constraint
BreaksCapacity(kinds) ==
    \/ NumberOf(kinds, {"image"}) > 2
    \/ NumberOf(kinds, TextKinds) > 3
    \/ NumberOf(kinds, {"image"}) > 0 /\ NumberOf(kinds, TextKinds) > 1

\* the splits made so far: the kinds of a finalized slide, and the kind of
\* the element it was finalized for (the first of what follows it)
Splits ==
    {<<KindsOf(slides_data[n].elements), slides_data[n + 1].elements[1].type>> :
        n \in 1..(Len(slides_data) - 1)}
      \cup (IF pc = "loop" /\ slides_data # <<>> /\ current_slide_elements # <<>>
            THEN {<<KindsOf(slides_data[Len(slides_data)].elements),
                    current_slide_elements[1].type>>}
            ELSE {})

\* C22 as stated: a slide is finalized for an element only when the slide
\* with that element added would break a capacity constraint.
C22_SplitOnlyWhenNeeded ==
    \A sp \in Splits : BreaksCapacity(Append(sp[1], sp[2]))

\* C22, amended: a slide is finalized for an element only when the slide with
\* that element added would break a capacity constraint, or when the element
\* is an image and the slide holds text and no image.
C22_SplitNeededOrFirstImage ==
    \A sp \in Splits :
        \/ BreaksCapacity(Append(sp[1], sp[2]))
        \/ /\ sp[2] = "image"
           /\ NumberOf(sp[1], {"image"}) = 0
           /\ NumberOf(sp[1], TextKinds) > 0

\* paragraph, image, image, image: the paragraph's slide ends for the first
\* image, the slide of two images for the third
C22_Witness ==
    /\ Returned
    /\ KindsOf(input) = <<"paragraph", "image", "image", "image">>
    /\ Splits = {<<(<<"paragraph">>), "image">>, <<(<<"image", "image">>), "image">>}
\* ------------------------------------------------------------ properties of the consumed ids

\* C23: after a page-level group with an id and without a payload in its
\* Figure/Picture child, the later page-level blocks with the same id give no
\* element.
C23_ConsumedWithoutPayload ==
    \A pl \in Places :
        (Passed(pl) /\ LacksPayload(BlockAt(pl)) /\ Truthy(BlockAt(pl).id)) =>
            \A nx \in Places :
                (Before(pl, nx) /\ Passed(nx) /\ BlockAt(nx).id = BlockAt(pl).id) =>
                    ElementsFrom(nx) = {}
\* ------------------------------------------------------------ properties of the caller's list

\* C24: when assemble_slides has returned, the caller's elements are what
\* they were at the call: as many, in the same order, with the same fields.
C24_InputUnchanged ==
    Returned =>
        /\ Len(elements) = Len(input)
        /\ \A k \in 1..Len(input) : elements[k] = input[k]

\* ------------------------------------------------------------ properties of the shapes

\* a sequence of kinds with every text kind written as "text"
Shape(kinds) == [k \in 1..Len(kinds) |-> IF kinds[k] = "image" THEN "image" ELSE "text"]

SlideShapes ==
    {<<"text">>, <<"text", "text">>, <<"text", "text", "text">>,
     <<"image">>, <<"image", "image">>, <<"image", "text">>,
     <<"image", "text", "image">>, <<"image", "image", "text">>}

\* C25: a slide with an image and a text starts with an image; every slide
\* has one of the eight shapes; an image and then a text share a slide, a
\* text and then an image get a slide each.
C25_SlideShapes ==
    /\ \A n \in 1..Len(slides_data) :
          LET kinds == KindsOf(slides_data[n].elements) IN
          /\ (NumberOf(kinds, {"image"}) > 0 /\ NumberOf(kinds, TextKinds) > 0)
                => kinds[1] = "image"
          /\ Shape(kinds) \in SlideShapes
    /\ (Returned /\ Shape(KindsOf(input)) = <<"image", "text">>) =>
          /\ Len(slides_data) = 1
          /\ Shape(KindsOf(slides_data[1].elements)) = <<"image", "text">>
    /\ (Returned /\ Shape(KindsOf(input)) = <<"text", "image">>) =>
          /\ Len(slides_data) = 2
          /\ Shape(KindsOf(slides_data[1].elements)) = <<"text">>
          /\ Shape(KindsOf(slides_data[2].elements)) = <<"image">>

\* a heading, an image, a paragraph, an image: the title alone, then a slide of
\* image, text, image
C25_Witness ==
    /\ Returned
    /\ KindsOf(input) = <<"heading", "image", "paragraph", "image">>
    /\ Len(slides_data) = 2
    /\ Shape(KindsOf(slides_data[1].elements)) = <<"text">>
    /\ Shape(KindsOf(slides_data[2].elements)) = <<"image", "text", "image">>
====
